---------------------------- MODULE Spec2Model ----------------------------
(***************************************************************************)
(* gpu-stat: a collector polls a remote host over SSH (ssh_client.py),     *)
(* parses three nvidia-smi outputs into a snapshot (data_collector.py) and *)
(* hands it to a sink, which cli.py wires to DataStore.store_data          *)
(* (data_store.py).                                                        *)
(*                                                                         *)
(* Text is modelled as a sequence of lines, a line as a sequence of        *)
(* comma-separated fields already stripped of surrounding blanks; the      *)
(* empty text "" is the empty sequence.                                    *)
(***************************************************************************)
EXTENDS Integers, Sequences, FiniteSets, TLC

VARIABLES
    servers,         \* the configured servers whose collectors were started
    max_retries,     \* start_collection's max_retries argument
    callback,        \* start_collection's callback argument
    cycleLimit,      \* how many poll cycles a run of the model follows
    threadKind,      \* per collector: "main" (direct call) or "worker" (cli.run thread)
    signalled,       \* a SIGINT has been sent to the process
    pc,              \* per collector: position in start_collection
    retry_count,     \* per collector: the local retry_count
    client,          \* per collector: state of SSHClient.client
    history,         \* per collector: outcome of every finished cycle, oldest first
    cycleCmds,       \* per collector: the execute_command calls of the current cycle
    data,            \* per collector: <<snapshot>> returned by collect_gpu_stats, <<>> for None
    sinkLog,         \* per collector: one entry per callback invocation
    exitReason,      \* per collector: how the loop was left
    disconnectCalls, \* per collector: calls of SSHClient.disconnect made by start_collection
    files,           \* the data directory: file name -> lines
    today,           \* the wall-clock date
    calls,           \* store harness: one entry per finished store_data call
    mainPc,          \* position of cli.py's run in the main thread, "none" without it
    cyclesAtSignal,  \* per collector under cli.py's run: cycles finished when SIGINT came
    writers,         \* store_data calls in progress side by side: their locals
    ops              \* client harness: one entry per call made on an SSHClient

vars == <<servers, max_retries, callback, cycleLimit, threadKind, signalled, pc, retry_count,
          client, history, cycleCmds, data, sinkLog, exitReason, disconnectCalls,
          files, today, calls, mainPc, cyclesAtSignal, writers, ops>>

(************************* bounds of the model *****************************)
MaxRetriesArg == 3
MaxCycles == 6
WiredCycles == 2
FleetCycles == 1
PairCycles == 1
MaxIoFailures == 1
MaxCalls == 2
MaxGpus == 2
MaxDay == 2
MaxLines == 2
MaxOps == 4

\* start_collection's default for max_retries, which cli.py leaves in place
DefaultMaxRetries == 3

Names == {"s1", "s2"}

(*************************** remote commands *******************************)
NVIDIA_SMI_CMD == "nvidia-smi --query-gpu=index,name,utilization.gpu,utilization.memory,memory.total,memory.used,memory.free,temperature.gpu,power.draw,power.limit,fan.speed --format=csv,noheader,nounits"
NVIDIA_SMI_UUID_CMD == "nvidia-smi --query-gpu=index,uuid --format=csv,noheader,nounits"
NVIDIA_SMI_PROCESS_CMD == "nvidia-smi --query-compute-apps=pid,process_name,gpu_uuid,used_memory --format=csv,noheader,nounits"


(************************* ssh_client.py: SSHClient ************************)
(* client is "none" (self.client is None), "no_transport" (a session       *)
(* object whose connect failed: get_transport() is None), "inactive" (the  *)
(* transport reports not active) or "live".                                *)
ClientStates == {"none", "no_transport", "inactive", "live"}

UnableToConnect == "Unable to connect to server"

\* What the remote side does during one execute_command call.
ExecEnvs(outputs) ==
    {[conn |-> c, fault |-> TRUE, exit |-> 0, stdout |-> <<>>, stderr |-> "",
      exc |-> "SSHException"] : c \in BOOLEAN}
    \cup {[conn |-> c, fault |-> FALSE, exit |-> 1, stdout |-> << <<"Failed to initialize NVML">> >>,
           stderr |-> "nvidia-smi: error", exc |-> ""] : c \in BOOLEAN}
    \cup {[conn |-> c, fault |-> FALSE, exit |-> 0, stdout |-> o, stderr |-> "",
           exc |-> ""] : c \in BOOLEAN, o \in outputs}

\* connect(): the session object is stored before the connection attempt.
Connect(reachable) ==
    [client |-> IF reachable THEN "live" ELSE "no_transport", connected |-> reachable]

\* Number of session objects connect() calls close() on: it overwrites
\* self.client whatever it holds.
ConnectCloses(c) == 0

\* (variant: only an unset handle is reconnected)
NeedsConnectNoneOnly(c) == c = "none"

\* The liveness test that guards connect() in execute_command.
NeedsConnect(c) == c = "none" \/ c = "no_transport" \/ c = "inactive"

\* (variant: the exit status is not looked at)
RunResultIgnoreExit(env) ==
    IF env.fault
    THEN [ok |-> FALSE, out |-> <<>>, err |-> env.exc]
    ELSE [ok |-> TRUE, out |-> env.stdout, err |-> env.stderr]

\* The value execute_command returns once the command was handed to the session.
RunResult(env) ==
    IF env.fault
    THEN [ok |-> FALSE, out |-> <<>>, err |-> env.exc]
    ELSE IF env.exit # 0
         THEN [ok |-> FALSE, out |-> env.stdout, err |-> env.stderr]
         ELSE [ok |-> TRUE, out |-> env.stdout, err |-> env.stderr]

\* (variant: the command is run although connect() failed)
ConnectFailedSendsAnyway(env) ==
    [sent |-> TRUE, res |-> RunResult(env)]

\* The value execute_command returns when connect() failed.
ConnectFailed(env) ==
    [sent |-> FALSE, res |-> [ok |-> FALSE, out |-> <<>>, err |-> UnableToConnect]]

\* execute_command(command) on a client in state c: the new client state and a
\* record of what the call did.
ExecuteCommand(c, command, env) ==
    LET need == NeedsConnect(c)
        conn == IF need THEN Connect(env.conn) ELSE [client |-> c, connected |-> TRUE]
        call == IF need /\ ~conn.connected
                THEN ConnectFailed(env)
                ELSE [sent |-> TRUE, res |-> RunResult(env)]
    IN  [client |-> conn.client,
         rec |-> [cmd |-> command, pre |-> c, connects |-> IF need THEN 1 ELSE 0,
                  connected |-> conn.connected, sent |-> call.sent,
                  env |-> [env EXCEPT !.conn = conn.connected],
                  ok |-> call.res.ok, out |-> call.res.out, err |-> call.res.err]]

\* (variant: the session is closed but the handle is kept)
DisconnectKeepsHandle(c) == c

\* disconnect(): closes and unsets the session when one is set.
Disconnect(c) == IF c # "none" THEN "none" ELSE c

\* Number of session objects disconnect() calls close() on
DisconnectCloses(c) == IF c # "none" THEN 1 ELSE 0

(****************** data_collector.py: parsing the outputs *****************)
\* int() and float() on the field texts that occur; floats are kept in tenths.
IntTable ==
    [t \in {"0", "1", "5", "10", "30", "45", "70", "123", "512", "2000", "6000", "8000"} |->
        CASE t = "0" -> 0 [] t = "1" -> 1 [] t = "5" -> 5 [] t = "10" -> 10
          [] t = "30" -> 30 [] t = "45" -> 45 [] t = "70" -> 70 [] t = "123" -> 123
          [] t = "512" -> 512 [] t = "2000" -> 2000 [] t = "6000" -> 6000
          [] t = "8000" -> 8000]

IsInt(t) == t \in DOMAIN IntTable

IntOf(t) == IntTable[t]

IsFloat(t) == IsInt(t) \/ t = "20.5"

FloatOf(t) == IF IsInt(t) THEN 10 * IntTable[t] ELSE 205

\* text.strip().split("\n"): the empty text still yields one (blank) line.
SplitLines(text) == IF text = <<>> THEN << <<"">> >> ELSE text

\* line.strip() is non-empty
NonBlank(line) == line # <<"">>

\* dict.get(key, default)
DictGet(map, key, default) == IF key \in DOMAIN map THEN map[key] ELSE default

\* The uuid loop: index -> uuid, or a ValueError from the two-name unpacking.
RECURSIVE ParseUuids(_, _, _)
ParseUuids(lines, k, map) ==
    IF k > Len(lines) THEN [raised |-> FALSE, map |-> map]
    ELSE LET parts == lines[k] IN
         IF NonBlank(parts) /\ Len(parts) >= 2
         THEN IF Len(parts) # 2 THEN [raised |-> TRUE, map |-> map]
              ELSE ParseUuids(lines, k + 1, (parts[1] :> parts[2]) @@ map)
         ELSE ParseUuids(lines, k + 1, map)

\* float(fan) if fan else 0
FanOk(fan) == fan = "" \/ IsFloat(fan)

FanSpeed(fan) == IF fan # "" THEN FloatOf(fan) ELSE 0

\* The conversions of one stats row succeed.
StatsRowConverts(parts) ==
    /\ IsInt(parts[1])
    /\ \A f \in 3..10 : IsFloat(parts[f])
    /\ FanOk(parts[11])

GpuData(parts, uuid_map) ==
    [index |-> IntOf(parts[1]), name |-> parts[2],
     uuid |-> DictGet(uuid_map, parts[1], "unknown"),
     utilization_gpu |-> FloatOf(parts[3]), utilization_memory |-> FloatOf(parts[4]),
     memory_total |-> FloatOf(parts[5]), memory_used |-> FloatOf(parts[6]),
     memory_free |-> FloatOf(parts[7]), temperature |-> FloatOf(parts[8]),
     power_draw |-> FloatOf(parts[9]), power_limit |-> FloatOf(parts[10]),
     fan_speed |-> FanSpeed(parts[11]), processes |-> <<>>]

\* (variant: ten fields are enough)
StatsRowTakenTen(parts) == Len(parts) >= 10

\* A stats row is taken when it has at least this many fields.
StatsRowTaken(parts) == Len(parts) >= 11

\* The stats loop: the GPU records in row order, or a ValueError.
RECURSIVE ParseStats(_, _, _, _)
ParseStats(lines, k, uuid_map, gpus) ==
    IF k > Len(lines) THEN [raised |-> FALSE, gpus |-> gpus]
    ELSE LET parts == lines[k] IN
         IF NonBlank(parts) /\ StatsRowTaken(parts)
         THEN IF Len(parts) # 11 \/ ~StatsRowConverts(parts)
              THEN [raised |-> TRUE, gpus |-> gpus]
              ELSE ParseStats(lines, k + 1, uuid_map,
                              Append(gpus, GpuData(parts, uuid_map)))
         ELSE ParseStats(lines, k + 1, uuid_map, gpus)

\* (variant: a process goes to the first GPU record, whatever its uuid)
FirstGpuAny(gpus, gpu_uuid) == IF gpus = <<>> THEN 0 ELSE 1

\* Index of the first GPU record with this uuid, 0 when there is none.
FirstGpuWithUuid(gpus, gpu_uuid) ==
    LET hits == {g \in 1..Len(gpus) : gpus[g].uuid = gpu_uuid}
    IN  IF hits = {} THEN 0 ELSE CHOOSE g \in hits : \A h \in hits : g <= h

AttachProcess(gpus, gpu_uuid, process_data) ==
    LET g == FirstGpuWithUuid(gpus, gpu_uuid)
    IN  IF g = 0 THEN gpus
        ELSE [gpus EXCEPT ![g].processes = Append(@, process_data)]

\* The process loop: the GPU records with their processes, or a ValueError.
RECURSIVE ParseProcesses(_, _, _)
ParseProcesses(lines, k, gpus) ==
    IF k > Len(lines) THEN [raised |-> FALSE, gpus |-> gpus]
    ELSE LET parts == lines[k] IN
         IF NonBlank(parts) /\ Len(parts) >= 4
         THEN IF Len(parts) # 4 \/ ~IsInt(parts[1]) \/ ~IsFloat(parts[4])
              THEN [raised |-> TRUE, gpus |-> gpus]
              ELSE ParseProcesses(lines, k + 1,
                       AttachProcess(gpus, parts[3],
                           [pid |-> IntOf(parts[1]), name |-> parts[2],
                            used_memory |-> FloatOf(parts[4])]))
         ELSE ParseProcesses(lines, k + 1, gpus)

\* The parsing half of collect_gpu_stats: the three loops in the code's order.
ParseOutputs(gpu_stats_output, gpu_uuid_output, process_output) ==
    LET u == ParseUuids(SplitLines(gpu_uuid_output), 1, <<>>) IN
    IF u.raised THEN [raised |-> TRUE, gpus |-> <<>>]
    ELSE LET g == ParseStats(SplitLines(gpu_stats_output), 1, u.map, <<>>) IN
         IF g.raised THEN [raised |-> TRUE, gpus |-> <<>>]
         ELSE LET q == ParseProcesses(SplitLines(process_output), 1, g.gpus) IN
              IF q.raised THEN [raised |-> TRUE, gpus |-> <<>>] ELSE q

\* The snapshot collect_gpu_stats returns.
Snapshot(timestamp, server, gpus) ==
    [timestamp |-> timestamp, server |-> server, host |-> server, gpus |-> gpus]

\* Outputs the remote host produces in the collector runs.
GoodRow(idx) == <<idx, "TestGPU", "10", "5", "8000", "2000", "6000", "45", "20.5", "70", "30">>

NoFanRow(idx) == <<idx, "TestGPU", "10", "5", "8000", "2000", "6000", "45", "20.5", "70", "[N/A]">>

StatsOutputs == { <<GoodRow("0")>>, <<NoFanRow("0")>> }

UuidOutputs == { << <<"0", "GPU-abc">> >> }

ProcessOutputs == { << <<"123", "python", "GPU-abc", "512">> >> }

OutputsOf(command) ==
    IF command = NVIDIA_SMI_CMD THEN StatsOutputs
    ELSE IF command = NVIDIA_SMI_UUID_CMD THEN UuidOutputs
    ELSE ProcessOutputs

(********************** data_store.py: DataStore ***************************)
\* gpu_stats_<date>.csv and gpu_<index>_processes_<date>.csv under the server's directory
StatsFile(server_name, date_str) == <<server_name, "gpu_stats", -1, date_str>>

ProcessFile(server_name, gpu_idx, date_str) == <<server_name, "gpu_processes", gpu_idx, date_str>>

StatsFields == <<"timestamp", "gpu_index", "gpu_name", "utilization_gpu", "utilization_memory",
                 "memory_total", "memory_used", "memory_free", "temperature", "power_draw",
                 "power_limit", "fan_speed", "process_count">>

ProcessFields == <<"timestamp", "gpu_index", "pid", "process_name", "used_memory">>

\* writer.writeheader() and writer.writerow(row): one line of the file each
HeaderLine(fields) == [kind |-> "header", cells |-> fields]

StatsRow(timestamp, gpu) ==
    [kind |-> "row",
     cells |-> <<timestamp, gpu.index, gpu.name, gpu.utilization_gpu, gpu.utilization_memory,
                 gpu.memory_total, gpu.memory_used, gpu.memory_free, gpu.temperature,
                 gpu.power_draw, gpu.power_limit, gpu.fan_speed, Len(gpu.processes)>>]

ProcessRow(timestamp, gpu_idx, proc) ==
    [kind |-> "row", cells |-> <<timestamp, gpu_idx, proc.pid, proc.name, proc.used_memory>>]

\* (variant: only the first process of a GPU record is written)
ProcessRowsFirstOnly(timestamp, gpu_idx, processes, k) ==
    IF k > Len(processes) THEN <<>> ELSE <<ProcessRow(timestamp, gpu_idx, processes[k])>>

\* The rows of a GPU record's processes, from the k-th on
RECURSIVE ProcessRows(_, _, _, _)
ProcessRows(timestamp, gpu_idx, processes, k) ==
    IF k > Len(processes) THEN <<>>
    ELSE <<ProcessRow(timestamp, gpu_idx, processes[k])>>
         \o ProcessRows(timestamp, gpu_idx, processes, k + 1)

\* (variant: every block starts with a header)
NeedHeaderAlways(file_exists) == TRUE

\* "Write header if file doesn't exist"
NeedHeader(file_exists) == ~file_exists

\* The lines one with-block writes: the header when due, then the rows.
BlockLines(file_exists, fields, rows) ==
    (IF NeedHeader(file_exists) THEN <<HeaderLine(fields)>> ELSE <<>>) \o rows

\* open(name, "a") followed by the block's writes and the close. io is what the
\* filesystem does: "ok", "open" (the open fails, nothing is created) or "write"
\* (the file is opened, and created when absent, but the buffered lines are lost).
AppendBlock(fs, name, lines, io) ==
    IF io = "open" THEN fs
    ELSE LET old == IF name \in DOMAIN fs THEN fs[name] ELSE <<>>
             new == IF io = "write" THEN old ELSE old \o lines
         IN  [n \in DOMAIN fs \cup {name} |-> IF n = name THEN new ELSE fs[n]]

\* (variant: the exception is passed on to the caller)
OnStoreExceptionReraise(st) == [st EXCEPT !.pc = "done", !.ret = FALSE, !.raised = TRUE]

\* (variant: the failure is caught inside the loop, which goes on to the next
\* GPU record)
OnStoreExceptionSkipsRecord(st) == [st EXCEPT !.pc = "stats", !.i = st.i + 1]

\* The except clause of store_data: log and return False.
OnStoreException(st) == [st EXCEPT !.pc = "done", !.ret = FALSE]

\* The locals of a store_data call at its entry.
StoreEntry == [pc |-> "begin", i |-> 1, date_str |-> 0, file_exists |-> FALSE,
               ret |-> FALSE, raised |-> FALSE, failed |-> FALSE]

\* One step of store_data(data): the locals st and the files fs after it. now is
\* the wall-clock date during the step and io what the filesystem does in it.
StoreStep(st, fs, snapshot, now, io) ==
    LET fail == [st |-> OnStoreException([st EXCEPT !.failed = TRUE]), fs |-> fs] IN
    CASE st.pc = "begin" ->
            IF snapshot.server = ""
            THEN [st |-> [st EXCEPT !.pc = "done", !.ret = FALSE], fs |-> fs]
            ELSE IF io # "ok" THEN fail
            ELSE [st |-> [st EXCEPT !.pc = "stats", !.date_str = now,
                             !.file_exists = StatsFile(snapshot.server, now) \in DOMAIN fs],
                  fs |-> fs]
      [] st.pc = "stats" ->
            IF st.i > Len(snapshot.gpus)
            THEN [st |-> [st EXCEPT !.pc = "done", !.ret = TRUE], fs |-> fs]
            ELSE LET name == StatsFile(snapshot.server, st.date_str)
                     lines == BlockLines(st.file_exists, StatsFields,
                                         <<StatsRow(snapshot.timestamp, snapshot.gpus[st.i])>>)
                     fs2 == AppendBlock(fs, name, lines, io)
                 IN  IF io # "ok" THEN [fail EXCEPT !.fs = fs2]
                     ELSE [st |-> [st EXCEPT !.pc = "procs", !.file_exists = TRUE],
                           fs |-> fs2]
      [] st.pc = "procs" ->
            LET gpu == snapshot.gpus[st.i]
                name == ProcessFile(snapshot.server, gpu.index, now)
                lines == BlockLines(name \in DOMAIN fs, ProcessFields,
                                    ProcessRows(snapshot.timestamp, gpu.index,
                                                gpu.processes, 1))
                fs2 == AppendBlock(fs, name, lines, io)
            IN  IF gpu.processes = <<>>
                THEN [st |-> [st EXCEPT !.pc = "stats", !.i = st.i + 1], fs |-> fs]
                ELSE IF io # "ok" THEN [fail EXCEPT !.fs = fs2]
                ELSE [st |-> [st EXCEPT !.pc = "stats", !.i = st.i + 1], fs |-> fs2]
      [] OTHER -> [st |-> st, fs |-> fs]

\* A whole store_data call: step k fails with failKind when k = failAt, and the
\* date advances just before step rollAt.
RECURSIVE RunStore(_, _, _, _, _, _, _, _)
RunStore(st, fs, snapshot, now, k, failAt, failKind, rollAt) ==
    IF st.pc = "done" THEN [ret |-> st.ret, raised |-> st.raised, failed |-> st.failed,
                            date_str |-> st.date_str, fs |-> fs, now |-> now]
    ELSE LET now2 == IF k = rollAt THEN now + 1 ELSE now
             r == StoreStep(st, fs, snapshot, now2, IF k = failAt THEN failKind ELSE "ok")
         IN  RunStore(r.st, r.fs, snapshot, now2, k + 1, failAt, failKind, rollAt)

\* store_data(data) from entry to return
StoreData(fs, snapshot, now, failAt, failKind, rollAt) ==
    RunStore(StoreEntry, fs, snapshot, now, 1, failAt, failKind, rollAt)

(**************** data_collector.py: GPUDataCollector **********************)
Commands == <<NVIDIA_SMI_CMD, NVIDIA_SMI_UUID_CMD, NVIDIA_SMI_PROCESS_CMD>>

\* Positions inside the while loop of start_collection.
CmdPcs == {"cmd1", "cmd2", "cmd3"}

InLoop == {"loop", "parse", "sink", "sleep"} \cup CmdPcs

\* Which command collect_gpu_stats issues at each of its three calls.
CommandAt(p) == IF p = "cmd1" THEN Commands[1] ELSE IF p = "cmd2" THEN Commands[2] ELSE Commands[3]

\* Where collect_gpu_stats goes after a call that returned success = True.
AfterCommand(p) == IF p = "cmd1" THEN "cmd2" ELSE IF p = "cmd2" THEN "cmd3" ELSE "parse"

\* (variant: a failed process query only warns)
CommandAbortsExceptProcess(p, ok) == ~ok /\ p # "cmd3"

\* "if not success: ... return None": a failed call ends collect_gpu_stats.
CommandAborts(p, ok) == ~ok

\* (variant: the counter is not reset)
RetryAfterSuccessKeeps(rc) == rc

\* "retry_count = 0" on a cycle that returned data
RetryAfterSuccess(rc) == 0

\* "retry_count += 1" on a cycle that returned None
RetryAfterFailure(rc) == rc + 1

\* (variant: one more failure is tolerated)
GivesUpLate(rc, limit) == rc > limit

\* "if retry_count >= max_retries: break"
GivesUp(rc, limit) == rc >= limit

\* The store's steps for a snapshot: begin, two per GPU record, the return.
StoreSteps(snapshot) == 2 + 2 * Len(snapshot.gpus)

\* Number of store_data calls so far that met an I/O failure.
IoFailures(w) == sinkLog[w].ioFailures

NoSink == [calls |-> 0, cycle |-> 0, ret |-> FALSE, raised |-> FALSE, failed |-> FALSE,
           ioFailures |-> 0]

\* The state of collectors, files and clock before anything has run.
InitBase ==
    /\ signalled = FALSE
    /\ pc = [w \in Names |-> IF w \in servers /\ mainPc = "none" THEN "start" ELSE "idle"]
    /\ retry_count = [w \in Names |-> 0]
    /\ client = [w \in Names |-> "none"]
    /\ history = [w \in Names |-> <<>>]
    /\ cycleCmds = [w \in Names |-> <<>>]
    /\ data = [w \in Names |-> <<>>]
    /\ sinkLog = [w \in Names |-> NoSink]
    /\ exitReason = [w \in Names |-> "none"]
    /\ disconnectCalls = [w \in Names |-> 0]
    /\ files = <<>>
    /\ today = 1
    /\ calls = <<>>
    /\ cyclesAtSignal = [w \in Names |-> 0]
    /\ ops = <<>>

\* The state every run starts from, whatever its configuration: no store_data
\* call is in progress.
InitRun == InitBase /\ writers = <<>>

\* A program calls GPUDataCollector.start_collection itself, in its main thread
\* or in a thread of its own, with a callback of its own.
Init ==
    /\ servers = {"s1"}
    /\ max_retries \in 1..MaxRetriesArg
    /\ callback \in {"none", "returning", "raising"}
    /\ cycleLimit = MaxCycles
    /\ threadKind \in {[w \in Names |-> k] : k \in {"main", "worker"}}
    /\ mainPc = "none"
    /\ InitRun

\* cli.py's run: one thread per server, each running
\* collector.start_collection(interval, data_store.store_data).
InitWired ==
    /\ servers = {"s1"}
    /\ max_retries = DefaultMaxRetries
    /\ callback = "store_data"
    /\ cycleLimit = WiredCycles
    /\ threadKind = [w \in Names |-> "worker"]
    /\ mainPc = "none"
    /\ InitRun

storeVars == <<files, today, calls>>
configVars == <<servers, max_retries, callback, cycleLimit, threadKind>>
orchVars == <<mainPc, cyclesAtSignal>>
harnessVars == <<writers, ops>>
fixedVars == <<configVars, orchVars, harnessVars>>

\* (variant: one SSHClient, a class attribute, serves every collector)
ClientOfShared(w) == "s1"

\* GPUDataCollector.__init__ builds an SSHClient of its own: the client that
\* collector w uses is client[ClientOf(w)].
ClientOf(w) == w

\* (variant: a failed cycle below the limit also waits out the interval)
AfterFailedCycleSleeps(gaveUp) == IF gaveUp THEN "finally" ELSE "sleep"

\* Where start_collection goes after a failed cycle: "break" when it gives up,
\* else "continue", which skips time.sleep(interval).
AfterFailedCycle(gaveUp) == IF gaveUp THEN "finally" ELSE "loop"

\* start_collection enters its try block and reaches the while loop.
Start(w) ==
    /\ pc[w] = "start"
    /\ pc' = [pc EXCEPT ![w] = "loop"]
    /\ UNCHANGED <<fixedVars, signalled, retry_count, client, history, cycleCmds, data,
                   sinkLog, exitReason, disconnectCalls, storeVars>>

\* An iteration of the loop calls collect_gpu_stats.
BeginCycle(w) ==
    /\ pc[w] = "loop"
    /\ Len(history[w]) < cycleLimit
    /\ pc' = [pc EXCEPT ![w] = "cmd1"]
    /\ cycleCmds' = [cycleCmds EXCEPT ![w] = <<>>]
    /\ data' = [data EXCEPT ![w] = <<>>]
    /\ UNCHANGED <<fixedVars, signalled, retry_count, client, history, sinkLog,
                   exitReason, disconnectCalls, storeVars>>

\* One execute_command call of collect_gpu_stats and, when it fails, the
\* handling of the None that collect_gpu_stats returns.
Execute(w) ==
    /\ pc[w] \in CmdPcs
    /\ \E env \in ExecEnvs(OutputsOf(CommandAt(pc[w]))) :
         LET x == ExecuteCommand(client[ClientOf(w)], CommandAt(pc[w]), env)
             rc == RetryAfterFailure(retry_count[w])
         IN  /\ client' = [client EXCEPT ![ClientOf(w)] = x.client]
             /\ cycleCmds' = [cycleCmds EXCEPT ![w] = Append(@, x.rec)]
             /\ IF CommandAborts(pc[w], x.rec.ok)
                THEN /\ history' = [history EXCEPT ![w] = Append(@, "fail")]
                     /\ retry_count' = [retry_count EXCEPT ![w] = rc]
                     /\ pc' = [pc EXCEPT ![w] = AfterFailedCycle(GivesUp(rc, max_retries))]
                     /\ exitReason' = [exitReason EXCEPT ![w] =
                                          IF GivesUp(rc, max_retries) THEN "giveup" ELSE @]
                ELSE /\ pc' = [pc EXCEPT ![w] = AfterCommand(pc[w])]
                     /\ UNCHANGED <<history, retry_count, exitReason>>
    /\ UNCHANGED <<fixedVars, signalled, data, sinkLog, disconnectCalls, storeVars>>

\* The output of the k-th call of the cycle ("" when the call was not made or failed).
OutputOf(w, k) ==
    IF k <= Len(cycleCmds[w]) /\ cycleCmds[w][k].ok THEN cycleCmds[w][k].out ELSE <<>>

\* The rest of collect_gpu_stats after three successful calls, and what the loop
\* does with the snapshot or with the exception of a failed conversion.
Parse(w) ==
    /\ pc[w] = "parse"
    /\ LET r == ParseOutputs(OutputOf(w, 1), OutputOf(w, 2), OutputOf(w, 3)) IN
       IF r.raised
       THEN /\ history' = [history EXCEPT ![w] = Append(@, "fault")]
            /\ pc' = [pc EXCEPT ![w] = "finally"]
            /\ exitReason' = [exitReason EXCEPT ![w] = "fault"]
            /\ UNCHANGED <<data, retry_count>>
       ELSE /\ history' = [history EXCEPT ![w] = Append(@, "ok")]
            /\ data' = [data EXCEPT ![w] = <<Snapshot(Len(history[w]) + 1, w, r.gpus)>>]
            /\ retry_count' = [retry_count EXCEPT ![w] = RetryAfterSuccess(@)]
            /\ pc' = [pc EXCEPT ![w] = IF callback # "none" THEN "sink" ELSE "sleep"]
            /\ UNCHANGED exitReason
    /\ UNCHANGED <<fixedVars, signalled, client, cycleCmds, sinkLog, disconnectCalls,
                   storeVars>>

\* (variant: a False return ends the loop)
AfterSinkCountsFailure(ret, raised) == IF raised \/ ~ret THEN "finally" ELSE "sleep"

\* (variant: an exception of the callback skips the finally clause)
AfterSinkNoFinally(ret, raised) == IF raised THEN "stopped" ELSE "sleep"

\* What the loop does after callback(data) returned ret or raised.
AfterSink(ret, raised) == IF raised THEN "finally" ELSE "sleep"

\* callback(data) with cli.py's callback, DataStore.store_data.
SinkStore(w) ==
    /\ pc[w] = "sink"
    /\ callback = "store_data"
    /\ \E failAt \in 0..(StoreSteps(data[w][1]) - 1), failKind \in {"open", "write"} :
         /\ failAt <= 1 => failKind = "open"
         /\ failAt # 0 => IoFailures(w) < MaxIoFailures
         /\ LET r == StoreData(files, data[w][1], today, failAt, failKind, 0) IN
            /\ files' = r.fs
            /\ sinkLog' = [sinkLog EXCEPT ![w] =
                              [calls |-> @.calls + 1, cycle |-> Len(history[w]),
                               ret |-> r.ret, raised |-> r.raised, failed |-> r.failed,
                               ioFailures |-> @.ioFailures + IF r.failed THEN 1 ELSE 0]]
            /\ pc' = [pc EXCEPT ![w] = AfterSink(r.ret, r.raised)]
            /\ exitReason' = [exitReason EXCEPT ![w] =
                                 IF AfterSink(r.ret, r.raised) = "finally" THEN "fault" ELSE @]
    /\ UNCHANGED <<fixedVars, signalled, retry_count, client, history, cycleCmds, data,
                   disconnectCalls, today, calls>>

\* callback(data) with a callback of the caller's that returns some value.
SinkReturns(w) ==
    /\ pc[w] = "sink"
    /\ callback = "returning"
    /\ \E ret \in BOOLEAN :
         /\ sinkLog' = [sinkLog EXCEPT ![w] =
                           [@ EXCEPT !.calls = @ + 1, !.cycle = Len(history[w]),
                                     !.ret = ret, !.raised = FALSE, !.failed = FALSE]]
         /\ pc' = [pc EXCEPT ![w] = AfterSink(ret, FALSE)]
         /\ exitReason' = [exitReason EXCEPT ![w] =
                              IF AfterSink(ret, FALSE) = "finally" THEN "fault" ELSE @]
    /\ UNCHANGED <<fixedVars, signalled, retry_count, client, history, cycleCmds, data,
                   disconnectCalls, storeVars>>

\* callback(data) with a callback that raises.
SinkRaises(w) ==
    /\ pc[w] = "sink"
    /\ callback = "raising"
    /\ sinkLog' = [sinkLog EXCEPT ![w] =
                      [@ EXCEPT !.calls = @ + 1, !.cycle = Len(history[w]),
                                !.ret = FALSE, !.raised = TRUE, !.failed = FALSE]]
    /\ pc' = [pc EXCEPT ![w] = AfterSink(FALSE, TRUE)]
    /\ exitReason' = [exitReason EXCEPT ![w] = "fault"]
    /\ UNCHANGED <<fixedVars, signalled, retry_count, client, history, cycleCmds, data,
                   disconnectCalls, storeVars>>

\* time.sleep(interval) returns and the loop iterates.
Wake(w) ==
    /\ pc[w] = "sleep"
    /\ pc' = [pc EXCEPT ![w] = "loop"]
    /\ UNCHANGED <<fixedVars, signalled, retry_count, client, history, cycleCmds, data,
                   sinkLog, exitReason, disconnectCalls, storeVars>>

\* The finally clause: self.ssh_client.disconnect(), then start_collection returns.
Finalize(w) ==
    /\ pc[w] = "finally"
    /\ client' = [client EXCEPT ![ClientOf(w)] = Disconnect(@)]
    /\ disconnectCalls' = [disconnectCalls EXCEPT ![w] = @ + 1]
    /\ pc' = [pc EXCEPT ![w] = "stopped"]
    /\ UNCHANGED <<fixedVars, signalled, retry_count, history, cycleCmds, data, sinkLog,
                   exitReason, storeVars>>

\* The network drops, during a command or between two polls: the transport of a
\* live session becomes inactive.
Drop(w) ==
    /\ pc[w] \in CmdPcs \cup {"sleep"}
    /\ client[ClientOf(w)] = "live"
    /\ client' = [client EXCEPT ![ClientOf(w)] = "inactive"]
    /\ UNCHANGED <<fixedVars, signalled, pc, retry_count, history, cycleCmds, data,
                   sinkLog, exitReason, disconnectCalls, storeVars>>

\* Threads in which Python raises KeyboardInterrupt on SIGINT.
Interruptible(kind) == kind = "main"

\* What the SIGINT does to cli.py's run, which has no handler for it: while
\* os.system waits for the dashboard the parent ignores SIGINT (system(3));
\* while starting or joining threads KeyboardInterrupt ends run.
MainAfterSignal(at) == IF at \in {"spawn", "join"} THEN "interrupted" ELSE at

\* SIGINT arrives. Python raises KeyboardInterrupt in the main thread only: a
\* collector running there leaves through "except KeyboardInterrupt" (or, before
\* the loop, straight through the finally clause); when the interrupt strikes
\* inside connect(), the new session object may already be stored.
Signal ==
    /\ ~signalled
    /\ signalled' = TRUE
    /\ mainPc' = MainAfterSignal(mainPc)
    /\ cyclesAtSignal' = [w \in Names |-> IF mainPc = "none" THEN 0 ELSE Len(history[w])]
    /\ \E inConnect \in BOOLEAN :
         LET hit(w) == w \in servers /\ Interruptible(threadKind[w])
                       /\ pc[w] \in InLoop \cup {"start"}
         IN  /\ pc' = [w \in Names |-> IF hit(w) THEN "finally" ELSE pc[w]]
             /\ exitReason' = [w \in Names |-> IF hit(w) THEN "cancel" ELSE exitReason[w]]
             /\ client' = [c \in Names |->
                             IF \E w \in Names : /\ ClientOf(w) = c /\ hit(w) /\ inConnect
                                                  /\ pc[w] \in CmdPcs /\ NeedsConnect(client[c])
                             THEN "no_transport" ELSE client[c]]
    /\ UNCHANGED <<configVars, harnessVars, retry_count, history, cycleCmds, data, sinkLog,
                   disconnectCalls, storeVars>>

Next ==
    \/ \E w \in servers : Start(w)
    \/ \E w \in servers : BeginCycle(w)
    \/ \E w \in servers : Execute(w)
    \/ \E w \in servers : Parse(w)
    \/ \E w \in servers : SinkReturns(w)
    \/ \E w \in servers : SinkRaises(w)
    \/ \E w \in servers : Wake(w)
    \/ \E w \in servers : Finalize(w)
    \/ \E w \in servers : Drop(w)
    \/ Signal

Spec == Init /\ [][Next]_vars

NextWired ==
    \/ \E w \in servers : Start(w)
    \/ \E w \in servers : BeginCycle(w)
    \/ \E w \in servers : Execute(w)
    \/ \E w \in servers : Parse(w)
    \/ \E w \in servers : SinkStore(w)
    \/ \E w \in servers : Wake(w)
    \/ \E w \in servers : Finalize(w)
    \/ \E w \in servers : Drop(w)
    \/ Signal

SpecWired == InitWired /\ [][NextWired]_vars

(********************* two collectors side by side *************************)
\* One thread per server, as cli.py's run starts them, each running
\* start_collection on a collector of its own; max_retries is 1, so that a
\* collector can give up within the cycles followed.
InitPair ==
    /\ servers = Names
    /\ max_retries = 1
    /\ callback = "returning"
    /\ cycleLimit = PairCycles
    /\ threadKind = [w \in Names |-> "worker"]
    /\ mainPc = "none"
    /\ InitRun

NextPair ==
    \/ \E w \in servers : Start(w)
    \/ \E w \in servers : BeginCycle(w)
    \/ \E w \in servers : Execute(w)
    \/ \E w \in servers : Parse(w)
    \/ \E w \in servers : SinkReturns(w)
    \/ \E w \in servers : Wake(w)
    \/ \E w \in servers : Finalize(w)
    \/ \E w \in servers : Drop(w)

SpecPair == InitPair /\ [][NextPair]_vars

(********************* cli.py: run, the orchestrator ***********************)
\* mainPc is "spawn" (the loop that starts one thread per server), "dashboard"
\* (os.system runs streamlit), "join" (the loop of thread.join), "returned",
\* "interrupted" (KeyboardInterrupt left run) or "exited" (the process is gone).

\* The servers in the order of the configuration file.
ServerOrder == <<"s1", "s2">>

InitFleet ==
    /\ servers = Names
    /\ max_retries = DefaultMaxRetries
    /\ callback = "store_data"
    /\ cycleLimit = FleetCycles
    /\ threadKind = [w \in Names |-> "worker"]
    /\ mainPc = "spawn"
    /\ InitRun

\* run builds the next server's collector and starts its thread.
Spawn(w) ==
    /\ mainPc = "spawn"
    /\ pc[w] = "idle"
    /\ \E k \in 1..Len(ServerOrder) :
         /\ ServerOrder[k] = w
         /\ \A j \in 1..(k - 1) : pc[ServerOrder[j]] # "idle"
    /\ pc' = [pc EXCEPT ![w] = "start"]
    /\ UNCHANGED <<fixedVars, signalled, retry_count, client, history, cycleCmds, data,
                   sinkLog, exitReason, disconnectCalls, storeVars>>

\* Every thread is started: run calls os.system(streamlit_command).
OpenDashboard ==
    /\ mainPc = "spawn"
    /\ \A w \in servers : pc[w] # "idle"
    /\ mainPc' = "dashboard"
    /\ UNCHANGED <<configVars, harnessVars, cyclesAtSignal, signalled, pc, retry_count,
                   client, history, cycleCmds, data, sinkLog, exitReason, disconnectCalls,
                   storeVars>>

\* The dashboard process ends and os.system returns.
DashboardExits ==
    /\ mainPc = "dashboard"
    /\ mainPc' = "join"
    /\ UNCHANGED <<configVars, harnessVars, cyclesAtSignal, signalled, pc, retry_count,
                   client, history, cycleCmds, data, sinkLog, exitReason, disconnectCalls,
                   storeVars>>

\* thread.join() returns for every thread: each start_collection has returned.
JoinAll ==
    /\ mainPc = "join"
    /\ \A w \in servers : pc[w] = "stopped"
    /\ mainPc' = "returned"
    /\ UNCHANGED <<configVars, harnessVars, cyclesAtSignal, signalled, pc, retry_count,
                   client, history, cycleCmds, data, sinkLog, exitReason, disconnectCalls,
                   storeVars>>

\* The interpreter shuts down once run is left; the threads are not daemons, so
\* it waits for every started thread first.
ProcessExit ==
    /\ mainPc \in {"returned", "interrupted"}
    /\ \A w \in servers : pc[w] \in {"idle", "stopped"}
    /\ mainPc' = "exited"
    /\ UNCHANGED <<configVars, harnessVars, cyclesAtSignal, signalled, pc, retry_count,
                   client, history, cycleCmds, data, sinkLog, exitReason, disconnectCalls,
                   storeVars>>

NextFleet ==
    \/ \E w \in servers : Spawn(w)
    \/ OpenDashboard
    \/ DashboardExits
    \/ JoinAll
    \/ ProcessExit
    \/ \E w \in servers : Start(w)
    \/ \E w \in servers : BeginCycle(w)
    \/ \E w \in servers : Execute(w)
    \/ \E w \in servers : Parse(w)
    \/ \E w \in servers : SinkStore(w)
    \/ \E w \in servers : Wake(w)
    \/ \E w \in servers : Finalize(w)
    \/ \E w \in servers : Drop(w)
    \/ Signal

SpecFleet == InitFleet /\ [][NextFleet]_vars

(******************* sequential calls of store_data ************************)
\* A GPU record with the given index and number of processes.
HarnessGpu(index, nproc) ==
    [GpuData(GoodRow("0"), <<>>) EXCEPT
        !.index = index,
        !.processes = [k \in 1..nproc |->
                          [pid |-> 100 * (index + 1) + k, name |-> "python", used_memory |-> 5120]]]

\* The snapshots handed to store_data: up to MaxGpus records, the k-th with index
\* k - 1, the records alternately with two processes and with none; and a
\* snapshot that names no server.
HarnessSnapshots(timestamp) ==
    {Snapshot(timestamp, "s1", [k \in 1..n |-> HarnessGpu(k - 1, 2 * (k % 2))]) :
        n \in 0..MaxGpus}
    \cup {Snapshot(timestamp, "", <<>>)}

InitStore ==
    /\ servers = {}
    /\ max_retries = DefaultMaxRetries
    /\ callback = "store_data"
    /\ cycleLimit = 0
    /\ threadKind = [w \in Names |-> "worker"]
    /\ mainPc = "none"
    /\ InitRun

collectorVars == <<configVars, orchVars, harnessVars, signalled, pc, retry_count, client,
                   history, cycleCmds, data, sinkLog, exitReason, disconnectCalls>>

\* Number of calls so far that met an I/O failure.
FailedCalls == Cardinality({k \in 1..Len(calls) : calls[k].failed})

\* Step k of store_data on this snapshot reads the clock after the entry: it is
\* the process-file step of a GPU record that has processes.
ReadsClock(snapshot, k) ==
    /\ k >= 3 /\ k % 2 = 1 /\ k < StoreSteps(snapshot)
    /\ snapshot.gpus[(k - 1) \div 2].processes # <<>>

\* One call data_store.store_data(snapshot), from entry to return. One of its
\* steps may fail, and midnight may pass during the call, which shows at the next
\* step that reads the clock (midnight before the call is NextDay).
StoreCall ==
    /\ Len(calls) < MaxCalls
    /\ \E snapshot \in HarnessSnapshots(Len(calls) + 1),
          failAt \in 0..(2 * MaxGpus + 1), failKind \in {"open", "write"},
          rollAt \in 0..(2 * MaxGpus + 1) :
         /\ failAt < StoreSteps(snapshot)
         /\ rollAt # 0 => ReadsClock(snapshot, rollAt)
         /\ failAt <= 1 => failKind = "open"
         /\ failAt # 0 => FailedCalls < MaxIoFailures
         /\ rollAt # 0 => today < MaxDay
         /\ LET r == StoreData(files, snapshot, today, failAt, failKind, rollAt) IN
            /\ files' = r.fs
            /\ today' = r.now
            /\ calls' = Append(calls, [snapshot |-> snapshot, date_str |-> r.date_str,
                                       ret |-> r.ret, raised |-> r.raised,
                                       failed |-> r.failed, rolled |-> r.now # today])
    /\ UNCHANGED collectorVars

\* Midnight passes between two calls.
NextDay ==
    /\ today < MaxDay
    /\ today' = today + 1
    /\ UNCHANGED <<collectorVars, files, calls>>

NextStore == StoreCall \/ NextDay

SpecStore == InitStore /\ [][NextStore]_vars

(*************** collect_gpu_stats on a range of outputs *******************)
\* A stats row cut off after its tenth field
ShortRow(idx) == SubSeq(GoodRow(idx), 1, 10)

\* The rows the remote host may print, by command.
\* A row followed by one more field, as a comma inside a name produces
LongRow(row) == row \o <<"x">>

StatsRows == {GoodRow("0"), GoodRow("1"), ShortRow("1"), NoFanRow("1"), LongRow(GoodRow("1"))}

UuidTexts == {<<>>, << <<"0", "GPU-abc">> >>, << <<"0", "GPU-abc">>, <<"1", "GPU-def">> >>,
              << LongRow(<<"0", "GPU-abc">>) >>}

ProcessRowsOut ==
    {<<"123", "python", "GPU-abc", "512">>, <<"45", "train", "GPU-def", "2000">>,
     <<"5", "other", "GPU-zzz", "10">>, <<"[N/A]", "python", "GPU-abc", "512">>,
     LongRow(<<"123", "python", "GPU-abc", "512">>)}

\* The texts of at most MaxLines lines over a set of rows
Texts(rows) == UNION {[1..n -> rows] : n \in 0..MaxLines}

\* The record of an execute_command call that succeeded with this output.
Succeeded(command, output) ==
    ExecuteCommand("live", command,
                   [conn |-> TRUE, fault |-> FALSE, exit |-> 0, stdout |-> output,
                    stderr |-> "", exc |-> ""]).rec

\* The first cycle of a collector, its three commands done.
InitParse ==
    /\ servers = {"s1"}
    /\ max_retries = DefaultMaxRetries
    /\ callback = "none"
    /\ cycleLimit = 1
    /\ threadKind = [w \in Names |-> "worker"]
    /\ mainPc = "none"
    /\ signalled = FALSE
    /\ pc = [w \in Names |-> IF w \in servers THEN "parse" ELSE "idle"]
    /\ retry_count = [w \in Names |-> 0]
    /\ client = [w \in Names |-> IF w \in servers THEN "live" ELSE "none"]
    /\ history = [w \in Names |-> <<>>]
    /\ \E stats \in Texts(StatsRows), uuids \in UuidTexts, procs \in Texts(ProcessRowsOut) :
         cycleCmds = [w \in Names |->
                        IF w \in servers
                        THEN <<Succeeded(NVIDIA_SMI_CMD, stats),
                               Succeeded(NVIDIA_SMI_UUID_CMD, uuids),
                               Succeeded(NVIDIA_SMI_PROCESS_CMD, procs)>>
                        ELSE <<>>]
    /\ data = [w \in Names |-> <<>>]
    /\ sinkLog = [w \in Names |-> NoSink]
    /\ exitReason = [w \in Names |-> "none"]
    /\ disconnectCalls = [w \in Names |-> 0]
    /\ files = <<>>
    /\ today = 1
    /\ calls = <<>>
    /\ cyclesAtSignal = [w \in Names |-> 0]
    /\ writers = <<>>
    /\ ops = <<>>

NextParse == \E w \in servers : Parse(w)

SpecParse == InitParse /\ [][NextParse]_vars

(***************** an SSHClient driven call by call ************************)
\* Whatever its user calls, in whatever order: connect, execute_command and
\* disconnect on the one SSHClient of "s1", with the network dropping in between.
\* ops records each call: the handle before and after it, its result, and the
\* number of session objects it closed.

InitClient ==
    /\ servers = {}
    /\ max_retries = DefaultMaxRetries
    /\ callback = "none"
    /\ cycleLimit = 0
    /\ threadKind = [w \in Names |-> "worker"]
    /\ mainPc = "none"
    /\ InitRun

clientFrame == <<configVars, orchVars, writers, signalled, pc, retry_count, history,
                 cycleCmds, data, sinkLog, exitReason, disconnectCalls, storeVars>>

Called(op, post, ok, closes) ==
    Append(ops, [op |-> op, pre |-> client["s1"], post |-> post, ok |-> ok,
                 closes |-> closes])

\* client.connect()
ClientConnect ==
    /\ Len(ops) < MaxOps
    /\ \E reachable \in BOOLEAN :
         LET r == Connect(reachable) IN
         /\ client' = [client EXCEPT !["s1"] = r.client]
         /\ ops' = Called("connect", r.client, r.connected, ConnectCloses(client["s1"]))
    /\ UNCHANGED clientFrame

\* client.execute_command(NVIDIA_SMI_CMD)
ClientExecute ==
    /\ Len(ops) < MaxOps
    /\ \E env \in ExecEnvs({<<GoodRow("0")>>}) :
         LET x == ExecuteCommand(client["s1"], NVIDIA_SMI_CMD, env) IN
         /\ client' = [client EXCEPT !["s1"] = x.client]
         /\ ops' = Called("execute", x.client, x.rec.ok,
                          IF x.rec.connects = 1 THEN ConnectCloses(client["s1"]) ELSE 0)
    /\ UNCHANGED clientFrame

\* client.disconnect()
ClientDisconnect ==
    /\ Len(ops) < MaxOps
    /\ client' = [client EXCEPT !["s1"] = Disconnect(@)]
    /\ ops' = Called("disconnect", Disconnect(client["s1"]), TRUE,
                     DisconnectCloses(client["s1"]))
    /\ UNCHANGED clientFrame

\* The transport of the live session goes down.
ClientDrop ==
    /\ client["s1"] = "live"
    /\ client' = [client EXCEPT !["s1"] = "inactive"]
    /\ UNCHANGED <<clientFrame, ops>>

NextClient == ClientConnect \/ ClientExecute \/ ClientDisconnect \/ ClientDrop

SpecClient == InitClient /\ [][NextClient]_vars

(******************* store_data calls side by side *************************)
\* cli.py does not require the servers of a configuration to have distinct names:
\* two entries named alike make two threads that hand snapshots of the same
\* server to the one DataStore. store_data takes no lock; the two calls
\* interleave step by step on the shared files.

\* The snapshot a writer stores: that of server "s1", stamped with the writer's
\* own time.
WriterSnapshots(w) == HarnessSnapshots(IF w = "s1" THEN 1 ELSE 2)

InitConcurrent ==
    /\ servers = {}
    /\ max_retries = DefaultMaxRetries
    /\ callback = "store_data"
    /\ cycleLimit = 0
    /\ threadKind = [w \in Names |-> "worker"]
    /\ mainPc = "none"
    /\ InitBase
    /\ writers \in [Names -> {[snapshot |-> d, st |-> StoreEntry] :
                                d \in WriterSnapshots("s1") \cup WriterSnapshots("s2")}]
    /\ \A w \in Names : writers[w].snapshot \in WriterSnapshots(w)

\* Writer w runs the next step of its store_data call.
WriterStep(w) ==
    /\ writers[w].st.pc # "done"
    /\ LET r == StoreStep(writers[w].st, files, writers[w].snapshot, today, "ok") IN
         /\ writers' = [writers EXCEPT ![w].st = r.st]
         /\ files' = r.fs
    /\ UNCHANGED <<configVars, orchVars, ops, signalled, pc, retry_count, client, history,
                   cycleCmds, data, sinkLog, exitReason, disconnectCalls, today, calls>>

NextConcurrent == \E w \in Names : WriterStep(w)

SpecConcurrent == InitConcurrent /\ [][NextConcurrent]_vars

(****************************** properties *********************************)
Last(h) == h[Len(h)]

\* Number of "fail" entries at the end of a history.
RECURSIVE TrailingFails(_)
TrailingFails(h) ==
    IF h = <<>> \/ Last(h) # "fail" THEN 0 ELSE 1 + TrailingFails(SubSeq(h, 1, Len(h) - 1))

CountOk(h) == Cardinality({k \in 1..Len(h) : h[k] = "ok"})

AllOk(cmds) == \A k \in 1..Len(cmds) : cmds[k].ok

LoopLeft(w) == pc[w] \in {"finally", "stopped"}

\* C1: the loop is left exactly when the consecutive-failure counter reaches
\* max_retries: the counter never exceeds max_retries, a collector whose counter
\* equals max_retries is out of the loop with give-up as the reason, a give-up
\* happens with the counter at max_retries and the last max_retries cycles failed;
\* and after a give-up no command is executed and the sink is not invoked.
C1_GiveUpAtMaxRetries ==
    /\ [](\A w \in servers :
            /\ retry_count[w] <= max_retries
            /\ retry_count[w] = max_retries => LoopLeft(w) /\ exitReason[w] = "giveup"
            /\ exitReason[w] = "giveup" =>
                  /\ retry_count[w] = max_retries
                  /\ TrailingFails(history[w]) = max_retries
                  /\ LoopLeft(w))
    /\ [][\A w \in servers :
            exitReason[w] = "giveup" =>
               /\ cycleCmds'[w] = cycleCmds[w]
               /\ history'[w] = history[w]
               /\ sinkLog'[w] = sinkLog[w]]_vars

C1_Witness ==
    /\ max_retries = 3
    /\ history["s1"] = <<"fail", "fail", "ok", "fail", "fail", "fail">>
    /\ sinkLog["s1"].calls = 1
    /\ pc["s1"] = "stopped"
    /\ exitReason["s1"] = "giveup"

\* C2: a successful cycle resets the counter: the counter always equals the
\* number of failed cycles since the last successful one, so a give-up needs
\* max_retries failures in a row, and with max_retries = 3 the run
\* fail, fail, succeed, fail, fail, succeed has not given up.
C2_SuccessResetsCounter ==
    \A w \in servers :
       /\ (history[w] # <<>> /\ Last(history[w]) = "ok") => retry_count[w] = 0
       /\ (history[w] = <<>> \/ Last(history[w]) # "fault") =>
             retry_count[w] = TrailingFails(history[w])
       /\ exitReason[w] = "giveup" => TrailingFails(history[w]) >= max_retries
       /\ (max_retries = 3
           /\ history[w] = <<"fail", "fail", "ok", "fail", "fail", "ok">>) =>
             exitReason[w] # "giveup" /\ retry_count[w] = 0

C2_Witness ==
    /\ max_retries = 3
    /\ history["s1"] = <<"fail", "fail", "ok", "fail", "fail", "ok">>
    /\ pc["s1"] = "sleep"
    /\ exitReason["s1"] = "none"

\* C3: on every exit path the loop is left towards the finally clause,
\* disconnect() has been called exactly once when start_collection has returned
\* and not before, and no command is executed after disconnect().
C3_DisconnectExactlyOnce ==
    /\ [](\A w \in servers :
            /\ exitReason[w] # "none" => LoopLeft(w)
            /\ pc[w] = "stopped" =>
                  disconnectCalls[w] = 1 /\ client[w] = "none" /\ exitReason[w] # "none"
            /\ pc[w] # "stopped" => disconnectCalls[w] = 0)
    /\ [][\A w \in servers :
            disconnectCalls[w] >= 1 =>
               /\ cycleCmds'[w] = cycleCmds[w]
               /\ client'[w] = client[w]
               /\ disconnectCalls'[w] = disconnectCalls[w]]_vars

C3_Witness ==
    /\ pc["s1"] = "stopped"
    /\ exitReason["s1"] = "fault"
    /\ sinkLog["s1"].raised
    /\ Len(history["s1"]) = 2
    /\ disconnectCalls["s1"] = 1

\* C4: the commands of a cycle are issued in the order stats, uuid, process
\* table, a failed command is the last of its cycle, a snapshot exists only when
\* all three succeeded, and the sink is invoked only with such a snapshot, at
\* most once per successful cycle.
C4_FirstFailureEndsCycle ==
    \A w \in servers :
       /\ Len(cycleCmds[w]) <= 3
       /\ \A k \in 1..Len(cycleCmds[w]) :
             /\ cycleCmds[w][k].cmd = Commands[k]
             /\ k < Len(cycleCmds[w]) => cycleCmds[w][k].ok
       /\ (data[w] # <<>> \/ pc[w] \in {"parse", "sink"}) =>
             Len(cycleCmds[w]) = 3 /\ AllOk(cycleCmds[w])
       /\ pc[w] = "sink" => data[w] # <<>>
       /\ sinkLog[w].calls <= CountOk(history[w])
       /\ sinkLog[w].calls > 0 =>
             /\ sinkLog[w].cycle \in 1..Len(history[w])
             /\ history[w][sinkLog[w].cycle] = "ok"

C4_Witness ==
    /\ pc["s1"] = "loop"
    /\ Len(cycleCmds["s1"]) = 2
    /\ cycleCmds["s1"][1].ok
    /\ ~cycleCmds["s1"][2].ok
    /\ data["s1"] = <<>>
    /\ sinkLog["s1"].calls = 1
    /\ history["s1"] = <<"ok", "fail">>

\* The execute_command calls of the current cycle of collector w.
ExecRecords(w) == {cycleCmds[w][k] : k \in 1..Len(cycleCmds[w])}

\* C5: execute_command calls connect() exactly once when it is entered without a
\* live session (handle unset, connect failed before, transport inactive) and
\* not at all when the session is live.
C5_ConnectOnceWhenNotLive ==
    \A w \in servers : \A r \in ExecRecords(w) :
       /\ r.pre \in {"none", "no_transport", "inactive"} => r.connects = 1
       /\ r.pre = "live" => r.connects = 0 /\ r.sent

C5_Witness ==
    /\ Len(cycleCmds["s1"]) = 3
    /\ cycleCmds["s1"][1].pre = "no_transport" /\ cycleCmds["s1"][1].connects = 1
    /\ cycleCmds["s1"][2].pre = "live" /\ cycleCmds["s1"][2].connects = 0
    /\ cycleCmds["s1"][3].pre = "inactive" /\ cycleCmds["s1"][3].connects = 1
    /\ cycleCmds["s1"][3].sent
    /\ Len(history["s1"]) >= 2

\* C6: a call whose connect() failed returns (False, "", "Unable to connect to
\* server"), has not sent the command, and leaves no live session.
C6_ConnectFailureNotSent ==
    \A w \in servers : \A r \in ExecRecords(w) :
       (r.connects = 1 /\ ~r.connected) =>
          /\ ~r.sent
          /\ ~r.ok /\ r.out = <<>> /\ r.err = UnableToConnect

C6_Witness ==
    /\ Len(cycleCmds["s1"]) = 2
    /\ cycleCmds["s1"][2].pre = "inactive"
    /\ cycleCmds["s1"][2].connects = 1
    /\ ~cycleCmds["s1"][2].connected
    /\ cycleCmds["s1"][2].err = UnableToConnect
    /\ pc["s1"] = "loop"

\* C7: a call that ran the command returns (False, "", message) on a transport
\* fault, (False, stdout, stderr) on a non-zero exit status and (True, stdout,
\* stderr) on exit status 0; a failed call never ends the caller's loop as a
\* fault: the loop is left as a fault only by a conversion error after three
\* successful calls or by the callback.
C7_ExecuteReturnsValue ==
    \A w \in servers :
       /\ \A r \in ExecRecords(w) :
             r.sent =>
                /\ r.env.fault => ~r.ok /\ r.out = <<>> /\ r.err = r.env.exc
                /\ (~r.env.fault /\ r.env.exit # 0) =>
                      ~r.ok /\ r.out = r.env.stdout /\ r.err = r.env.stderr
                /\ (~r.env.fault /\ r.env.exit = 0) =>
                      r.ok /\ r.out = r.env.stdout /\ r.err = r.env.stderr
       /\ (cycleCmds[w] # <<>> /\ ~AllOk(cycleCmds[w])) =>
             /\ exitReason[w] # "fault"
             /\ Last(history[w]) = "fail"
             /\ pc[w] = "loop" \/ LoopLeft(w)

C7_Witness ==
    /\ Len(cycleCmds["s1"]) = 2
    /\ cycleCmds["s1"][2].sent
    /\ cycleCmds["s1"][2].env.fault
    /\ ~cycleCmds["s1"][2].ok
    /\ pc["s1"] = "loop"
    /\ exitReason["s1"] = "none"

\* The stats rows of the calls so far whose stats file carries date d, call by call.
RECURSIVE ExpectedStatsRows(_, _)
ExpectedStatsRows(d, n) ==
    IF n = 0 THEN <<>>
    ELSE ExpectedStatsRows(d, n - 1)
         \o (IF calls[n].date_str = d /\ calls[n].snapshot.server = "s1"
             THEN [k \in 1..Len(calls[n].snapshot.gpus) |->
                      StatsRow(calls[n].snapshot.timestamp, calls[n].snapshot.gpus[k])]
             ELSE <<>>)

HeaderCount(lines) == Cardinality({k \in 1..Len(lines) : lines[k].kind = "header"})

NoCallFailed == \A k \in 1..Len(calls) : ~calls[k].failed

\* C8: after any number of sequential store_data calls none of which met an I/O
\* failure, each day's stats file of the server holds exactly one header line,
\* as its first line, followed by exactly the rows of the GPU records of the
\* calls made for that day, one row per record in call order; a day without
\* records has no file.
C8_OneHeaderThenRows ==
    NoCallFailed =>
       \A d \in 1..MaxDay :
          LET rows == ExpectedStatsRows(d, Len(calls))
              name == StatsFile("s1", d)
          IN  /\ rows = <<>> => name \notin DOMAIN files
              /\ rows # <<>> =>
                    /\ name \in DOMAIN files
                    /\ HeaderCount(files[name]) = 1
                    /\ files[name][1] = HeaderLine(StatsFields)
                    /\ Len(files[name]) = 1 + Len(rows)
                    /\ \A k \in 1..Len(rows) : files[name][k + 1] = rows[k]

C8_Witness ==
    /\ Len(calls) = 2
    /\ calls[1].ret /\ calls[2].ret
    /\ calls[1].date_str = 1 /\ calls[2].date_str = 1
    /\ Len(calls[1].snapshot.gpus) = 2 /\ Len(calls[2].snapshot.gpus) = 1
    /\ Len(files[StatsFile("s1", 1)]) = 4

\* C9: store_data answers an I/O failure with False and never raises; and while
\* the cycle whose store returned False is the latest one, the failure counter
\* is 0 and the collector is still in its loop; the step that follows the
\* callback is the interval sleep, with the counter untouched, whatever the
\* callback returned.
C9_StoreFailureDecoupled ==
    /\ [](\A w \in servers :
            /\ ~sinkLog[w].raised
            /\ sinkLog[w].failed => ~sinkLog[w].ret
            /\ (sinkLog[w].calls > 0 /\ ~sinkLog[w].ret
                /\ sinkLog[w].cycle = Len(history[w])) =>
                  /\ retry_count[w] = 0
                  /\ exitReason[w] = "none"
                  /\ ~LoopLeft(w))
    /\ [][\A w \in servers :
            (pc[w] = "sink" /\ pc'[w] # "sink") =>
               /\ pc'[w] = "sleep"
               /\ retry_count'[w] = retry_count[w]
               /\ exitReason'[w] = exitReason[w]]_vars

C9_Witness ==
    /\ sinkLog["s1"].calls = 1
    /\ sinkLog["s1"].failed
    /\ ~sinkLog["s1"].ret
    /\ history["s1"] = <<"ok">>
    /\ pc["s1"] = "cmd2"
    /\ retry_count["s1"] = 0

\* C10: once the stop signal was raised, no collector starts another cycle.
C10_StopSignalObserved ==
    [][\A w \in servers : (signalled /\ pc[w] = "loop") => pc'[w] # "cmd1"]_vars

\* C11: once the shutdown signal has arrived, a started collector whose current
\* cycle has ended since then is delivering that cycle's snapshot or has gone on
\* to its finalization (it is not found waiting for, or entering, another
\* cycle); and the process is gone only when every started collector has
\* stopped, its session closed.
C11_ShutdownReachesWorkers ==
    /\ \A w \in servers :
         (signalled /\ pc[w] # "idle" /\ Len(history[w]) > cyclesAtSignal[w])
             => pc[w] \in {"sink", "finally", "stopped"}
    /\ mainPc = "exited"
         => \A w \in servers : pc[w] \in {"idle", "stopped"} /\ client[ClientOf(w)] = "none"

\* Number of data rows in a file.
RowCount(lines) == Cardinality({k \in 1..Len(lines) : lines[k].kind = "row"})

WritersDone == \A w \in Names : writers[w].st.pc = "done"

\* C12: when two store_data calls for the same server and day have run side by
\* side, under whatever interleaving, every file they wrote holds exactly one
\* header line, as its first line, and the stats file holds one data row per GPU
\* record written.
C12_ConcurrentAppendsSerialized ==
    WritersDone =>
        /\ \A name \in DOMAIN files :
             /\ files[name] # <<>>
             /\ files[name][1].kind = "header"
             /\ HeaderCount(files[name]) = 1
        /\ LET name == StatsFile("s1", today)
               rows == IF name \in DOMAIN files THEN RowCount(files[name]) ELSE 0
               written(w) == IF writers[w].snapshot.server = "s1"
                             THEN Len(writers[w].snapshot.gpus) ELSE 0
           IN  rows = written("s1") + written("s2")

\* A stats row, or a process row, with the right number of fields, all of them
\* convertible.
FullStatsRow(parts) == Len(parts) = 11 /\ StatsRowConverts(parts)

FullProcessRow(parts) == Len(parts) = 4 /\ IsInt(parts[1]) /\ IsFloat(parts[4])

\* The uuid the uuid text gives for a GPU index
UuidOf(uuids, idx) ==
    IF \E k \in 1..Len(uuids) : uuids[k][1] = idx
    THEN uuids[CHOOSE k \in 1..Len(uuids) : uuids[k][1] = idx][2]
    ELSE "unknown"

\* The process records of the rows of procs, from row k on, that name this uuid
RECURSIVE ProcessesOf(_, _, _)
ProcessesOf(procs, k, gpu_uuid) ==
    IF k > Len(procs) THEN <<>>
    ELSE (IF procs[k][3] = gpu_uuid
          THEN <<[pid |-> IntOf(procs[k][1]), name |-> procs[k][2],
                  used_memory |-> FloatOf(procs[k][4])]>>
          ELSE <<>>) \o ProcessesOf(procs, k + 1, gpu_uuid)

\* The three outputs of w's cycle are well formed: full rows only, one stats row
\* per GPU index, a uuid for every index.
WellFormedOutputs(w) ==
    LET stats == OutputOf(w, 1)
        uuids == OutputOf(w, 2)
        procs == OutputOf(w, 3)
    IN  /\ \A k \in 1..Len(stats) : FullStatsRow(stats[k])
        /\ \A k \in 1..Len(uuids) : Len(uuids[k]) = 2
        /\ \A j, k \in 1..Len(stats) : stats[j][1] = stats[k][1] => j = k
        /\ \A k \in 1..Len(stats) : UuidOf(uuids, stats[k][1]) # "unknown"
        /\ \A k \in 1..Len(procs) : FullProcessRow(procs[k])

\* C13: from well-formed outputs collect_gpu_stats returns a snapshot whose GPU
\* records follow the stats rows in order, each with the uuid of its index, and
\* each holding exactly the process rows that name its uuid, in order; process
\* rows naming no GPU's uuid are in no record, and an empty process output
\* leaves every list empty.
C13_ProcessesAttachedByUuid ==
    \A w \in servers :
        (history[w] # <<>> /\ WellFormedOutputs(w)) =>
            /\ data[w] # <<>>
            /\ LET stats == OutputOf(w, 1)
                   gpus == data[w][1].gpus
               IN  /\ Len(gpus) = Len(stats)
                   /\ \A k \in 1..Len(gpus) :
                        /\ gpus[k].index = IntOf(stats[k][1])
                        /\ gpus[k].uuid = UuidOf(OutputOf(w, 2), stats[k][1])
                        /\ gpus[k].processes = ProcessesOf(OutputOf(w, 3), 1, gpus[k].uuid)

\* Two GPU records, a process attached to the second, a process row dropped.
C13_Witness ==
    \E w \in servers :
        /\ history[w] # <<>> /\ WellFormedOutputs(w) /\ data[w] # <<>>
        /\ Len(data[w][1].gpus) = 2
        /\ data[w][1].gpus[1].processes = <<>>
        /\ data[w][1].gpus[2].processes # <<>>
        /\ \E k \in 1..Len(OutputOf(w, 3)) : OutputOf(w, 3)[k][3] = "GPU-zzz"

\* The stats rows with all their fields
FullRows(stats) == SelectSeq(stats, LAMBDA parts : Len(parts) >= 11)

\* Every stats row of w's cycle is a full row or has fewer than 11 fields, and
\* the uuid rows and the process rows are full rows.
ShortOrFull(w) ==
    /\ \A k \in 1..Len(OutputOf(w, 2)) : Len(OutputOf(w, 2)[k]) = 2
    /\ \A k \in 1..Len(OutputOf(w, 1)) :
         Len(OutputOf(w, 1)[k]) < 11 \/ FullStatsRow(OutputOf(w, 1)[k])
    /\ \A k \in 1..Len(OutputOf(w, 3)) : FullProcessRow(OutputOf(w, 3)[k])

\* C14: a stats row with fewer than 11 fields is skipped: the cycle succeeds and
\* the snapshot holds the records of the other rows, in order.
C14_ShortStatsRowSkipped ==
    \A w \in servers :
        (history[w] # <<>> /\ ShortOrFull(w)) =>
            /\ Last(history[w]) = "ok"
            /\ data[w] # <<>>
            /\ LET full == FullRows(OutputOf(w, 1))
                   gpus == data[w][1].gpus
               IN  /\ Len(gpus) = Len(full)
                   /\ \A k \in 1..Len(gpus) :
                        gpus[k] = [GpuData(full[k], <<>>) EXCEPT
                                     !.uuid = UuidOf(OutputOf(w, 2), full[k][1]),
                                     !.processes = gpus[k].processes]

\* A short row before a full one: one record, that of the full row.
C14_Witness ==
    \E w \in servers :
        /\ history[w] # <<>> /\ ShortOrFull(w) /\ data[w] # <<>>
        /\ Len(OutputOf(w, 1)) = 2
        /\ Len(OutputOf(w, 1)[1]) < 11
        /\ Len(data[w][1].gpus) = 1
        /\ data[w][1].gpus[1].index = IntOf(OutputOf(w, 1)[2][1])

\* Every row of w's cycle has the right number of fields, and a numeric field of
\* some stats or process row does not convert.
ConversionFails(w) ==
    LET stats == OutputOf(w, 1)
        procs == OutputOf(w, 3)
    IN  /\ \A k \in 1..Len(stats) : Len(stats[k]) = 11
        /\ \A k \in 1..Len(procs) : Len(procs[k]) = 4
        /\ \/ \E k \in 1..Len(stats) : ~FullStatsRow(stats[k])
           \/ \E k \in 1..Len(procs) : ~FullProcessRow(procs[k])

\* C18: a cycle in which a numeric field does not convert ends in one of two
\* ways: the row is skipped and the cycle succeeds, or the cycle counts as a
\* failed collection (the failure counter goes up by one and, below max_retries,
\* the loop goes on to retry).
C18_ConversionFailurePolicy ==
    \A w \in servers :
        (history[w] # <<>> /\ ConversionFails(w)) =>
            \/ Last(history[w]) = "ok" /\ data[w] # <<>>
            \/ /\ Last(history[w]) = "fail"
               /\ retry_count[w] = TrailingFails(history[w])
               /\ retry_count[w] < max_retries => ~LoopLeft(w)

\* C15: connect() stores the session handle exactly when it succeeds; after a
\* failed connect the handle is unset.
C15_HandleStoredOnlyOnSuccess ==
    \A k \in 1..Len(ops) :
        ops[k].op = "connect" =>
            /\ ops[k].ok => ops[k].post = "live"
            /\ ~ops[k].ok => ops[k].post = "none"

\* C16: disconnect() is safe in every state of the client and idempotent: it
\* always leaves the handle unset; on a client without a handle it closes
\* nothing; on a client with a session it closes that one session; and called a
\* second time in a row it closes nothing and changes nothing.
C16_DisconnectIdempotent ==
    \A k \in 1..Len(ops) :
        ops[k].op = "disconnect" =>
            /\ ops[k].post = "none"
            /\ ops[k].pre = "none" => ops[k].closes = 0
            /\ ops[k].pre # "none" => ops[k].closes = 1
            /\ (k > 1 /\ ops[k - 1].op = "disconnect")
                   => ops[k].closes = 0 /\ ops[k].pre = ops[k].post
            /\ k = Len(ops) => client["s1"] = "none"

\* A live session disconnected twice in a row, and a disconnect before any
\* connection.
C16_Witness ==
    /\ Len(ops) >= 4
    /\ ops[1].op = "disconnect" /\ ops[1].pre = "none"
    /\ ops[2].op = "connect" /\ ops[2].post = "live"
    /\ ops[3].op = "disconnect" /\ ops[3].closes = 1
    /\ ops[4].op = "disconnect" /\ ops[4].closes = 0

\* The state that belongs to collector v alone
OwnState(v) ==
    <<pc[v], retry_count[v], client[ClientOf(v)], history[v], cycleCmds[v], data[v],
      sinkLog[v], exitReason[v], disconnectCalls[v]>>

\* A step that collector v can take in its loop
LoopStep(v) ==
    BeginCycle(v) \/ Execute(v) \/ Parse(v) \/ SinkReturns(v) \/ Wake(v)

\* C17: a step in which one collector gives up, exits on a fault or finalizes
\* changes nothing of any other collector (its failure counter, its session, its
\* position in the loop, its results); and a collector that has left does not
\* hold up the others: each of them, inside its loop, can take its next step.
C17_CollectorsIndependent ==
    /\ [][\A w \in servers :
            (pc'[w] # pc[w] /\ pc'[w] \in {"finally", "stopped"})
                => \A v \in servers \ {w} : OwnState(v)' = OwnState(v)]_vars
    /\ [](\A w \in servers :
            LoopLeft(w) =>
                \A v \in servers \ {w} :
                    (pc[v] \in InLoop /\ Len(history[v]) < cycleLimit)
                        => ENABLED LoopStep(v))

\* One collector gave up and is stopped, its session closed; the other has
\* delivered a snapshot over its own live session and waits for its next poll.
C17_Witness ==
    \E w \in servers : \E v \in servers \ {w} :
        /\ pc[w] = "stopped" /\ exitReason[w] = "giveup" /\ client[ClientOf(w)] = "none"
        /\ pc[v] = "sleep" /\ sinkLog[v].calls = 1 /\ client[ClientOf(v)] = "live"
        /\ retry_count[v] = 0

\* C19: the interval sleep is entered only straight from a successful cycle
\* (after the snapshot was delivered, when there is a callback), with the failure
\* counter at 0; a failed cycle that leaves the counter below max_retries goes
\* back to the top of the loop, and from there the next cycle starts with no
\* sleep in between; after a successful cycle nothing but the sleep leads to
\* the next one, so two successive successful cycles are one sleep apart.
C19_SleepOnlyAfterSuccess ==
    /\ [](\A w \in servers :
            pc[w] = "sleep" => history[w] # <<>> /\ Last(history[w]) = "ok"
                               /\ retry_count[w] = 0)
    /\ [][\A w \in servers :
            /\ (pc'[w] = "sleep" /\ pc[w] # "sleep")
                   => /\ pc[w] = (IF callback = "none" THEN "parse" ELSE "sink")
                      /\ Last(history'[w]) = "ok"
            /\ history'[w] = Append(history[w], "fail")
                   => pc'[w] = (IF retry_count'[w] < max_retries THEN "loop" ELSE "finally")
            /\ (pc[w] = "loop" /\ pc'[w] # "loop") => pc'[w] \in {"cmd1", "finally"}
            /\ (pc[w] \in {"parse", "sink"} /\ pc'[w] # pc[w])
                   => pc'[w] \in {"sink", "sleep", "finally"}
            /\ (pc[w] = "sleep" /\ pc'[w] # "sleep") => pc'[w] \in {"loop", "finally"}]_vars

\* The retry of a failed cycle under way, after a success that was followed by
\* its sleep.
C19_Witness ==
    \E w \in servers :
        /\ pc[w] = "cmd1" /\ retry_count[w] = 1 /\ retry_count[w] < max_retries
        /\ Len(history[w]) >= 3
        /\ history[w][1] = "ok" /\ history[w][2] = "ok" /\ history[w][3] = "fail"

\* The data rows of a file that carry this timestamp and GPU index
RowsOf(name, timestamp, gpu_idx) ==
    IF name \notin DOMAIN files THEN {}
    ELSE {k \in 1..Len(files[name]) :
            /\ files[name][k].kind = "row"
            /\ files[name][k].cells[1] = timestamp
            /\ files[name][k].cells[2] = gpu_idx}

\* Number of process rows of a call's GPU record in that GPU's companion files
CompanionRows(timestamp, gpu_idx) ==
    LET n[d \in 0..today] ==
            IF d = 0 THEN 0
            ELSE n[d - 1] + Cardinality(RowsOf(ProcessFile("s1", gpu_idx, d), timestamp, gpu_idx))
    IN  n[today]

\* C20: for every GPU record of a snapshot that store_data stored, the stats
\* file of the call's day holds one row of that record, and its process_count
\* equals the number of process rows the call appended to the companion file of
\* that GPU; a companion file exists only for a GPU index some snapshot gave
\* processes; and a companion file has at most one header, which, when no call
\* met an I/O failure, is its first line and is followed by rows.
C20_ProcessCountMatchesRows ==
    /\ \A c \in 1..Len(calls) :
         calls[c].ret =>
            \A g \in 1..Len(calls[c].snapshot.gpus) :
                LET gpu == calls[c].snapshot.gpus[g]
                    name == StatsFile("s1", calls[c].date_str)
                    rows == RowsOf(name, calls[c].snapshot.timestamp, gpu.index)
                IN  /\ Cardinality(rows) = 1
                    /\ \A k \in rows :
                         /\ files[name][k].cells[13] = Len(gpu.processes)
                         /\ files[name][k].cells[13]
                               = CompanionRows(calls[c].snapshot.timestamp, gpu.index)
    /\ \A name \in DOMAIN files :
         name[2] = "gpu_processes" =>
            /\ \E c \in 1..Len(calls) : \E g \in 1..Len(calls[c].snapshot.gpus) :
                  /\ calls[c].snapshot.gpus[g].index = name[3]
                  /\ calls[c].snapshot.gpus[g].processes # <<>>
            /\ HeaderCount(files[name]) <= 1
            /\ NoCallFailed => /\ files[name] # <<>>
                                /\ files[name][1].kind = "header"
                                /\ HeaderCount(files[name]) = 1
                                /\ RowCount(files[name]) >= 1

\* Two calls stored a snapshot of two GPU records, the first with two processes
\* and the second with none: one companion file, with one header and four rows.
C20_Witness ==
    /\ Len(calls) = 2 /\ NoCallFailed
    /\ \A c \in 1..2 : calls[c].ret /\ Len(calls[c].snapshot.gpus) = 2
    /\ ProcessFile("s1", 0, 1) \in DOMAIN files
    /\ RowCount(files[ProcessFile("s1", 0, 1)]) = 4
    /\ ProcessFile("s1", 1, 1) \notin DOMAIN files

\* Every row of w's cycle is a full row or has fields in excess, and some row
\* has fields in excess.
OverlongOrFull(w) ==
    LET stats == OutputOf(w, 1)
        uuids == OutputOf(w, 2)
        procs == OutputOf(w, 3)
    IN  /\ \A k \in 1..Len(stats) : FullStatsRow(stats[k]) \/ Len(stats[k]) > 11
        /\ \A k \in 1..Len(uuids) : Len(uuids[k]) >= 2
        /\ \A k \in 1..Len(procs) : FullProcessRow(procs[k]) \/ Len(procs[k]) > 4
        /\ \/ \E k \in 1..Len(stats) : Len(stats[k]) > 11
           \/ \E k \in 1..Len(uuids) : Len(uuids[k]) > 2
           \/ \E k \in 1..Len(procs) : Len(procs[k]) > 4

\* C24: a cycle whose three commands succeeded and whose only irregular rows
\* are rows with fields in excess (more than 11 in a stats row, 2 in a uuid row,
\* 4 in a process row) succeeds: the snapshot is returned and the collector
\* stays in its loop.
C24_OverlongRowsTolerated ==
    \A w \in servers :
        (history[w] # <<>> /\ OverlongOrFull(w)) =>
            /\ Last(history[w]) = "ok"
            /\ data[w] # <<>>
            /\ ~LoopLeft(w)

\* C23: every row that a store_data call wrote is in a file of one and the same
\* date, the date of the call's stats file, even when midnight passes during
\* the call.
C23_OneDatePerCall ==
    \A c \in 1..Len(calls) :
        \A name \in DOMAIN files :
            \A k \in 1..Len(files[name]) :
                (/\ files[name][k].kind = "row"
                 /\ files[name][k].cells[1] = calls[c].snapshot.timestamp)
                    => name[4] = calls[c].date_str

\* The rows of GPU record g of call c that are in the files: its stats rows, and
\* the number of its process rows.
StatsRowsOf(c, g) ==
    RowsOf(StatsFile("s1", calls[c].date_str), calls[c].snapshot.timestamp,
           calls[c].snapshot.gpus[g].index)

ProcessRowsOf(c, g) ==
    CompanionRows(calls[c].snapshot.timestamp, calls[c].snapshot.gpus[g].index)

\* C21 as stated: when store_data has returned False, no row of its snapshot is
\* in any file.
C21_AllOrNothing ==
    \A c \in 1..Len(calls) :
        ~calls[c].ret =>
            \A g \in 1..Len(calls[c].snapshot.gpus) :
                StatsRowsOf(c, g) = {} /\ ProcessRowsOf(c, g) = 0

\* C21 as amended: a store_data call that met an I/O failure returns False and
\* leaves what it had appended so far: there is a GPU record, the one at which
\* the failure struck, such that every record before it has its stats row and
\* all its process rows in the files and every record after it has no row; the
\* record itself has process rows only if it has its stats row. A call that
\* ended before it resolved the stats file (no server name, or a failure there)
\* leaves the files as they were.
C21_FalseReturnKeepsPrefix ==
    /\ [](\A c \in 1..Len(calls) :
            calls[c].failed =>
                /\ ~calls[c].ret
                /\ \E j \in 1..(Len(calls[c].snapshot.gpus) + 1) :
                     \A g \in 1..Len(calls[c].snapshot.gpus) :
                        /\ g < j => /\ Cardinality(StatsRowsOf(c, g)) = 1
                                     /\ ProcessRowsOf(c, g)
                                           = Len(calls[c].snapshot.gpus[g].processes)
                        /\ g > j => StatsRowsOf(c, g) = {} /\ ProcessRowsOf(c, g) = 0
                        /\ g = j => (StatsRowsOf(c, g) = {} => ProcessRowsOf(c, g) = 0))
    /\ [][(Len(calls') = Len(calls) + 1 /\ calls'[Len(calls')].date_str = 0)
             => files' = files]_vars

\* A call returned False after it had stored its first GPU record, stats row
\* and process rows, and before any row of the second.
C21_Witness ==
    \E c \in 1..Len(calls) :
        /\ calls[c].failed /\ ~calls[c].ret
        /\ Len(calls[c].snapshot.gpus) >= 2
        /\ Cardinality(StatsRowsOf(c, 1)) = 1
        /\ ProcessRowsOf(c, 1) = 2
        /\ StatsRowsOf(c, 2) = {}

\* The k-th call created a session object: it was connect(), or an
\* execute_command that connected first.
Creates(k) ==
    ops[k].op = "connect" \/ (ops[k].op = "execute" /\ NeedsConnect(ops[k].pre))

\* Session objects created and not closed so far
Unclosed ==
    LET n[k \in 0..Len(ops)] ==
            IF k = 0 THEN 0
            ELSE n[k - 1] + (IF Creates(k) THEN 1 ELSE 0) - ops[k].closes
    IN  n[Len(ops)]

\* C22: no session object is leaked: a call that creates a session object while
\* the client holds one closes the one it replaces, so that at most one unclosed
\* session object exists at any time, and none once the handle is unset.
C22_NoSessionLeak ==
    /\ \A k \in 1..Len(ops) : (Creates(k) /\ ops[k].pre # "none") => ops[k].closes = 1
    /\ Unclosed <= 1
    /\ client["s1"] = "none" => Unclosed = 0

=============================================================================
